---- MODULE Spec2Model ----
(***************************************************************************)
(* Model of the rauk-inventory client library.                             *)
(*                                                                         *)
(*   RaukInventoryClient        src/src/core/rauk-client.ts                *)
(*   RaukInventory, revision 1  src/src/index.ts lines 1-396               *)
(*   RaukInventory, revision 2  src/src/index.ts lines 397-582             *)
(*   singleton registry         exercised by src/tests/index.test.ts; its  *)
(*                              source is not part of src/                 *)
(*                                                                         *)
(* JavaScript values are records tagged by the field t, so that values of  *)
(* different JavaScript types can be compared.                             *)
(***************************************************************************)
EXTENDS Integers, Sequences, FiniteSets, TLC

VARIABLES
    client,     \* the directly constructed RaukInventoryClient, or NoClient
    instance,   \* RaukInventory.instance: the singleton, or NoClient
    lastSync,   \* outcome of the latest step, if a constructor or setConfig call
    calls,      \* the operation calls: calls[i] is idle, awaiting or settled
    netCalls,   \* number of times fetch has been invoked
    enc,        \* encoder harness: one method applied to one argument list
    verr        \* a ValidationError and the accessor applied to it

vars == <<client, instance, lastSync, calls, netCalls, enc, verr>>

----------------------------------------------------------------------------
(* JavaScript values *)

Undefined == [t |-> "undefined"]
Null == [t |-> "null"]
Str(s) == [t |-> "string", s |-> s]
Num(n) == [t |-> "number", n |-> n]
Bool(b) == [t |-> "boolean", b |-> b]
\* an opaque document (query, update, item, aggregate stage, bulk operation)
Doc(id) == [t |-> "doc", id |-> id]
Arr(items) == [t |-> "array", items |-> items]
\* an object literal with the single key k
Obj1(k, v) == [t |-> "object", key |-> k, val |-> v]
\* an OperationRequestOptions object: limit and select are Undefined when absent
Opts(limit, select) == [t |-> "options", limit |-> limit, select |-> select]

\* an object that refers to itself: JSON.stringify throws a TypeError on it
Cyclic == [t |-> "cyclic"]

\* ToBoolean, as applied by `!x` and `x ? a : b`
Truthy(v) ==
    CASE v.t \in {"undefined", "null"} -> FALSE
      [] v.t = "string" -> v.s # ""
      [] v.t = "number" -> v.n # 0
      [] v.t = "boolean" -> v.b
      [] OTHER -> TRUE

\* property access v.k on a value that is not null or undefined
Prop(v, k) ==
    IF v.t = "object" /\ v.key = k THEN v.val ELSE Undefined

----------------------------------------------------------------------------
(* Errors and results *)

NoError == [kind |-> "none"]

\* `new Error(message)`: a plain Error carries a message and nothing else
PlainError(message) ==
    [kind |-> "Error", message |-> message, statusCode |-> Undefined,
     validationErrors |-> Undefined, originalError |-> Undefined,
     context |-> Undefined]

\* an exception raised by the runtime itself (TypeError, SyntaxError)
RuntimeError(kind, message) ==
    [kind |-> kind, message |-> message, statusCode |-> Undefined,
     validationErrors |-> Undefined, originalError |-> Undefined,
     context |-> Undefined]

Resolved(v) == [ok |-> TRUE, value |-> v, err |-> NoError]
Rejected(e) == [ok |-> FALSE, value |-> Undefined, err |-> e]

----------------------------------------------------------------------------
(* Construction *)

DefaultBaseUrl == "https://inventory.rauk.app"
RequiredMessage == "apiKeyId, apiSecret and apiPublicKey are required"

NoClient == [cls |-> "none"]

Config(keyId, secret, publicKey, baseUrl) ==
    [apiKeyId |-> keyId, apiSecret |-> secret, apiPublicKey |-> publicKey,
     apiBaseUrl |-> baseUrl]

\* The constructor with the credential check dropped.
constructorUnchecked(config) ==
    [ok |-> TRUE, err |-> NoError,
     obj |-> [cls |-> "RaukInventoryClient",
              apiKeyId |-> config.apiKeyId,
              apiSecret |-> config.apiSecret,
              apiPublicKey |-> config.apiPublicKey,
              apiBaseUrl |-> IF config.apiBaseUrl = Undefined
                             THEN Str(DefaultBaseUrl)
                             ELSE config.apiBaseUrl]]

\* new RaukInventoryClient(config): the thrown error, or the object built
constructor(config) ==
    IF ~Truthy(config.apiKeyId) \/ ~Truthy(config.apiSecret)
          \/ ~Truthy(config.apiPublicKey)
    THEN [ok |-> FALSE, err |-> PlainError(RequiredMessage), obj |-> NoClient]
    ELSE [ok |-> TRUE, err |-> NoError,
          obj |-> [cls |-> "RaukInventoryClient",
                   apiKeyId |-> config.apiKeyId,
                   apiSecret |-> config.apiSecret,
                   apiPublicKey |-> config.apiPublicKey,
                   apiBaseUrl |-> IF config.apiBaseUrl = Undefined
                                  THEN Str(DefaultBaseUrl)
                                  ELSE config.apiBaseUrl]]

----------------------------------------------------------------------------
(* Command encoding: each method builds the requestArray it hands to       *)
(* request.  The operators return that array.                              *)

\* create with the options slot always present.
createPadded(item, options) == <<Str("insertOne"), item, options>>

create(item, options) ==
    IF Truthy(options)
    THEN <<Str("insertOne"), item, options>>
    ELSE <<Str("insertOne"), item>>

find(query, options) ==
    IF Truthy(options)
    THEN <<Str("find"), query, options>>
    ELSE <<Str("find"), query>>

findFlexible(query, options) ==
    IF Truthy(options)
    THEN <<Str("find"), query, options>>
    ELSE <<Str("find"), query>>

\* { limit: 1, ...options }: a limit of the caller wins over the 1.
SpreadLimit1First(options) ==
    IF options.t = "options" /\ options.limit # Undefined
    THEN options
    ELSE IF options.t = "options"
    THEN [options EXCEPT !.limit = Num(1)]
    ELSE Opts(Num(1), Undefined)

\* { ...options, limit: 1 }: spreading undefined contributes no property
SpreadLimit1(options) ==
    IF options.t = "options"
    THEN [options EXCEPT !.limit = Num(1)]
    ELSE Opts(Num(1), Undefined)

findOne(query, options) == find(query, SpreadLimit1(options))

findOneFlexible(query, options) == findFlexible(query, SpreadLimit1(options))

update(query, upd, options) ==
    IF Truthy(options)
    THEN <<Str("findOneAndUpdate"), query, upd, options>>
    ELSE <<Str("findOneAndUpdate"), query, upd>>

\* the literal { deleted: { status: true } }
SoftDeleteUpdate == Obj1("deleted", Obj1("status", Bool(TRUE)))

delete(query, options) ==
    IF Truthy(options)
    THEN <<Str("findOneAndUpdate"), query, SoftDeleteUpdate, options>>
    ELSE <<Str("findOneAndUpdate"), query, SoftDeleteUpdate>>

aggregate(pipeline, options) ==
    IF Truthy(options)
    THEN <<Str("aggregate"), pipeline, options>>
    ELSE <<Str("aggregate"), pipeline>>

\* revision 2 of RaukInventory reads the pipeline property of its argument
aggregateRev2(pipeline, options) ==
    IF Truthy(options)
    THEN <<Str("aggregate"), Prop(pipeline, "pipeline"), options>>
    ELSE <<Str("aggregate"), Prop(pipeline, "pipeline")>>

bulkWrite(operations, options) ==
    IF Truthy(options)
    THEN <<Str("bulkWrite"), operations, options>>
    ELSE <<Str("bulkWrite"), operations>>

updateMany(query, upd, options) ==
    IF Truthy(options)
    THEN <<Str("updateMany"), query, upd, options>>
    ELSE <<Str("updateMany"), query, upd>>

deleteOne(query, options) ==
    IF Truthy(options)
    THEN <<Str("deleteOne"), query, options>>
    ELSE <<Str("deleteOne"), query>>

deleteMany(query, options) ==
    IF Truthy(options)
    THEN <<Str("deleteMany"), query, options>>
    ELSE <<Str("deleteMany"), query>>

\* the object { updateOne: { filter, update } }
UpdateOne(filter, upd) ==
    Obj1("updateOne", [t |-> "filterUpdate", filter |-> filter, update |-> upd])

\* updates is an array of [query, update] pairs
updateBatch(updates, options) ==
    bulkWrite(
        Arr([i \in 1..Len(updates.items) |->
                UpdateOne(updates.items[i].items[1], updates.items[i].items[2])]),
        options)

\* revision 1 of RaukInventory wraps each update document: update: { update }
updateBatchRev1(updates, options) ==
    bulkWrite(
        Arr([i \in 1..Len(updates.items) |->
                UpdateOne(updates.items[i].items[1],
                          Obj1("update", updates.items[i].items[2]))]),
        options)

\* the classes of the repository and the methods each defines
Classes == {"RaukInventoryClient", "RaukInventoryRev1", "RaukInventoryRev2"}

Methods(cls) ==
    {"create", "find", "findOne", "update", "delete", "aggregate",
     "bulkWrite", "updateMany", "deleteOne", "deleteMany"}
    \cup (IF cls = "RaukInventoryRev1"
          THEN {"findFlexible", "findOneFlexible"} ELSE {})
    \cup (IF cls = "RaukInventoryRev2" THEN {} ELSE {"updateBatch"})

\* the requestArray method op of class cls builds from (a, b, options);
\* b is the update document of update and updateMany
RequestArray(cls, op, a, b, options) ==
    CASE op = "create" -> create(a, options)
      [] op = "find" -> find(a, options)
      [] op = "findFlexible" -> findFlexible(a, options)
      [] op = "findOne" -> findOne(a, options)
      [] op = "findOneFlexible" -> findOneFlexible(a, options)
      [] op = "update" -> update(a, b, options)
      [] op = "delete" -> delete(a, options)
      [] op = "aggregate" -> IF cls = "RaukInventoryRev2"
                             THEN aggregateRev2(a, options)
                             ELSE aggregate(a, options)
      [] op = "bulkWrite" -> bulkWrite(a, options)
      [] op = "updateMany" -> updateMany(a, b, options)
      [] op = "deleteOne" -> deleteOne(a, options)
      [] op = "deleteMany" -> deleteMany(a, options)
      [] op = "updateBatch" -> IF cls = "RaukInventoryRev1"
                               THEN updateBatchRev1(a, options)
                               ELSE updateBatch(a, options)


----------------------------------------------------------------------------
(* The request: signing, the fetch call and the handling of its outcome *)

\* A signature keyed by the secret alone, over the whole array.
signRequestSecretOnly(credentials, requestArray) ==
    [t |-> "signature",
     apiKeyId |-> Undefined,
     apiSecret |-> credentials.apiSecret,
     apiPublicKey |-> Undefined,
     payload |-> requestArray]

\* signRequest(credentials, requestArray): a keyed tag over the credentials
\* and the whole array, kept as the term it was computed from
signRequest(credentials, requestArray) ==
    [t |-> "signature",
     apiKeyId |-> credentials.apiKeyId,
     apiSecret |-> credentials.apiSecret,
     apiPublicKey |-> credentials.apiPublicKey,
     payload |-> requestArray]

\* v can be serialized: no object reachable from v refers to itself
RECURSIVE Serializable(_)
Serializable(v) ==
    CASE v.t = "cyclic" -> FALSE
      [] v.t = "array" -> \A i \in 1..Len(v.items) : Serializable(v.items[i])
      [] v.t = "object" -> Serializable(v.val)
      [] v.t = "filterUpdate" -> Serializable(v.filter) /\ Serializable(v.update)
      [] v.t = "options" -> Serializable(v.limit) /\ Serializable(v.select)
      [] OTHER -> TRUE

\* signRequest throws on a command tuple that cannot be serialized
SignFails(requestArray) ==
    \E k \in 1..Len(requestArray) : ~Serializable(requestArray[k])

SignErrorMessage == "Converting circular structure to JSON"

\* JSON.stringify of one value: undefined array elements become null, an
\* undefined property is left out, options keep only their present properties
RECURSIVE Stringify(_)
Stringify(v) ==
    CASE v.t = "undefined" -> Null
      [] v.t = "array" ->
            Arr([i \in 1..Len(v.items) |-> Stringify(v.items[i])])
      [] v.t = "object" ->
            IF v.val = Undefined THEN Doc("{}")
            ELSE Obj1(v.key, Stringify(v.val))
      [] v.t = "filterUpdate" ->
            [t |-> "filterUpdate", filter |-> Stringify(v.filter),
             update |-> Stringify(v.update)]
      [] OTHER -> v

\* JSON.stringify(requestArray)
StringifyArray(requestArray) ==
    [i \in 1..Len(requestArray) |-> Stringify(requestArray[i])]

NoRequest == [method |-> "none"]
\* a fetch call whose init object has no body property
NoBody == <<[t |-> "nobody"]>>

\* A request that sends apiKeyId as a last element of the body.
FetchArgsKeyInBody(obj, requestArray) ==
    [method |-> "POST",
     url |-> [base |-> obj.apiBaseUrl, path |-> "/query"],
     body |-> Append(StringifyArray(requestArray), obj.apiKeyId),
     signatureHeader |-> "Rai-Signature",
     signaturePrefix |-> "",
     signature |-> signRequest(
         [apiKeyId |-> obj.apiKeyId, apiSecret |-> obj.apiSecret,
          apiPublicKey |-> obj.apiPublicKey], requestArray),
     contentType |-> "application/json"]

\* A request that signs the command and its first argument only, and
\* sends the whole array.
FetchArgsSignsHead(obj, requestArray) ==
    [method |-> "POST",
     url |-> [base |-> obj.apiBaseUrl, path |-> "/query"],
     body |-> StringifyArray(requestArray),
     signatureHeader |-> "Rai-Signature",
     signaturePrefix |-> "",
     signature |-> signRequest(
         [apiKeyId |-> obj.apiKeyId, apiSecret |-> obj.apiSecret,
          apiPublicKey |-> obj.apiPublicKey], SubSeq(requestArray, 1, 2)),
     contentType |-> "application/json"]

\* the arguments request passes to fetch: the signature header is named by
\* signatureHeader and its value is signaturePrefix followed by the signature.
\* Revision 2 of RaukInventory sends no body and puts the signature in the
\* Authorization header.
FetchArgs(obj, requestArray) ==
    [method |-> "POST",
     url |-> [base |-> obj.apiBaseUrl, path |-> "/query"],
     body |-> IF obj.cls = "RaukInventoryRev2"
              THEN NoBody ELSE StringifyArray(requestArray),
     signatureHeader |-> IF obj.cls = "RaukInventoryRev2"
                         THEN "Authorization" ELSE "Rai-Signature",
     signaturePrefix |-> IF obj.cls = "RaukInventoryRev2"
                         THEN "Bearer " ELSE "",
     signature |-> signRequest(
         [apiKeyId |-> obj.apiKeyId, apiSecret |-> obj.apiSecret,
          apiPublicKey |-> obj.apiPublicKey], requestArray),
     contentType |-> "application/json"]

\* what the transport does with one fetch: it throws, or it answers
Throw(message) == [t |-> "throw", message |-> message]
Response(status, body) == [t |-> "response", status |-> status, body |-> body]
\* a response body: text that does not parse, or the JSON value it parses to
Unparseable == [parses |-> FALSE, json |-> Undefined]
Json(v) == [parses |-> TRUE, json |-> v]

\* the error object of an error body: { name, message, errors }
ErrorObject(name, message, errors) ==
    [t |-> "error", name |-> name, message |-> message, errors |-> errors]
\* the body { success: false, error }
ErrorBody(error) == [t |-> "errorBody", error |-> error]

\* response.ok
ResponseOk(outcome) == outcome.status >= 200 /\ outcome.status <= 299

\* new Error(x).message
MessageOf(x) == IF x.t = "string" THEN x.s ELSE ""

FailedMessage == "Failed to request"

\* The try block of request, from the moment fetch settles: the exception
\* thrown inside the block, or the promise the block returns.
TryBlock(cls, outcome) ==
    IF outcome.t = "throw"
    THEN [thrown |-> TRUE, err |-> RuntimeError("TypeError", outcome.message),
          promise |-> Rejected(NoError)]
    ELSE IF ~ResponseOk(outcome)
    THEN \* revision 2: throw new Error('Failed to request'), body unread
         IF cls = "RaukInventoryRev2"
         THEN [thrown |-> TRUE, err |-> PlainError(FailedMessage),
               promise |-> Rejected(NoError)]
         \* await response.json(), then throw new Error(jsonError.error?.message)
         ELSE IF ~outcome.body.parses
         THEN [thrown |-> TRUE,
               err |-> RuntimeError("SyntaxError", "Unexpected token"),
               promise |-> Rejected(NoError)]
         ELSE IF outcome.body.json.t = "null"
         THEN [thrown |-> TRUE,
               err |-> RuntimeError("TypeError", "Cannot read properties of null"),
               promise |-> Rejected(NoError)]
         ELSE IF outcome.body.json.t = "errorBody"
         THEN [thrown |-> TRUE,
               err |-> PlainError(MessageOf(outcome.body.json.error.message)),
               promise |-> Rejected(NoError)]
         ELSE [thrown |-> TRUE, err |-> PlainError(""),
               promise |-> Rejected(NoError)]
    ELSE \* return response.json(): the promise is returned without await
         [thrown |-> FALSE, err |-> NoError,
          promise |-> IF outcome.body.parses
                      THEN Resolved(outcome.body.json)
                      ELSE Rejected(RuntimeError("SyntaxError",
                                                 "Unexpected token"))]

\* A request that resolves with the decoded body wrapped in { data }.
requestResultWrapped(cls, outcome) ==
    LET r == TryBlock(cls, outcome)
    IN  IF r.thrown THEN Rejected(PlainError(FailedMessage))
        ELSE IF r.promise.ok THEN Resolved(Obj1("data", r.promise.value))
        ELSE r.promise

\* request's result: the catch block rethrows whatever the try block threw
requestResult(cls, outcome) ==
    LET r == TryBlock(cls, outcome)
    IN  IF r.thrown THEN Rejected(PlainError(FailedMessage)) ELSE r.promise

\* findOne returning results[0] whatever the length of results.
findOneResultUnchecked(found) ==
    IF ~found.ok THEN found
    ELSE IF found.value.t = "array" /\ Len(found.value.items) > 0
    THEN Resolved(found.value.items[1])
    ELSE Resolved(Undefined)

\* findOne after its find: results.length > 0 ? results[0] : null
findOneResult(found) ==
    IF ~found.ok THEN found
    ELSE IF found.value.t \in {"null", "undefined"}
    THEN Rejected(RuntimeError("TypeError", "Cannot read properties of null"))
    ELSE IF found.value.t = "array" /\ Len(found.value.items) > 0
    THEN Resolved(found.value.items[1])
    ELSE Resolved(Null)

\* the result of method op once request has settled with r
MethodResult(op, r) ==
    IF op \in {"findOne", "findOneFlexible"} THEN findOneResult(r) ELSE r


----------------------------------------------------------------------------
(* The singleton: RaukInventory.instance, the constructor that registers   *)
(* it, the static entry points and setConfig                               *)

AlreadyInitializedMessage == "RaukInventory is already initialized"
NotInitializedMessage ==
    "RaukInventory must be initialized with \"new RaukInventory(config)\" before calling static methods."

ConfigurationError(message) ==
    [kind |-> "ConfigurationError", message |-> message,
     statusCode |-> Undefined, validationErrors |-> Undefined,
     originalError |-> Undefined, context |-> Undefined]

\* The singleton constructor without the credential check.
RaukInventoryUnchecked(config, current) ==
    IF current # NoClient
    THEN [ok |-> FALSE, err |-> ConfigurationError(AlreadyInitializedMessage),
          obj |-> NoClient]
    ELSE constructorUnchecked(config)

\* The singleton constructor without the double-initialization check.
RaukInventoryUnguarded(config, current) == constructor(config)

\* new RaukInventory(config) while RaukInventory.instance is `current`
RaukInventory(config, current) ==
    IF current # NoClient
    THEN [ok |-> FALSE, err |-> ConfigurationError(AlreadyInitializedMessage),
          obj |-> NoClient]
    ELSE constructor(config)

\* The accessor that creates a client with no credentials instead of failing.
getInstanceUnguarded(current) ==
    [ok |-> TRUE, err |-> NoError,
     obj |-> IF current = NoClient
             THEN constructorUnchecked(
                      Config(Undefined, Undefined, Undefined, Undefined)).obj
             ELSE current]

\* The accessor that hands the static entry points a client with the
\* default base URL.
getInstanceDefaultUrl(current) ==
    IF current = NoClient
    THEN [ok |-> FALSE, err |-> ConfigurationError(NotInitializedMessage),
          obj |-> NoClient]
    ELSE [ok |-> TRUE, err |-> NoError,
          obj |-> [current EXCEPT !.apiBaseUrl = Str(DefaultBaseUrl)]]

\* the accessor every static entry point goes through
getInstance(current) ==
    IF current = NoClient
    THEN [ok |-> FALSE, err |-> ConfigurationError(NotInitializedMessage),
          obj |-> NoClient]
    ELSE [ok |-> TRUE, err |-> NoError, obj |-> current]

\* A setConfig that replaces the credentials and keeps the base URL.
setConfigCredentialsOnly(obj, config) ==
    [obj EXCEPT !.apiKeyId = config.apiKeyId,
                !.apiSecret = config.apiSecret,
                !.apiPublicKey = config.apiPublicKey]

\* A setConfig that replaces the base URL and keeps the credentials.
setConfigUrlOnly(obj, config) ==
    [obj EXCEPT !.apiBaseUrl = config.apiBaseUrl]

\* setConfig(config) on the object obj: all four fields are replaced
setConfig(obj, config) ==
    [obj EXCEPT !.apiKeyId = config.apiKeyId,
                !.apiSecret = config.apiSecret,
                !.apiPublicKey = config.apiPublicKey,
                !.apiBaseUrl = config.apiBaseUrl]

----------------------------------------------------------------------------
(* ValidationError and its accessors.  validationErrors is a sequence of   *)
(* entries { property, constraints }, constraints a sequence of strings.   *)

ValidationEntry(property, constraints) ==
    [t |-> "validationError", property |-> property,
     constraints |-> constraints]

\* The accessor that takes the first constraint of each entry only.
getAllMessagesFirst(validationErrors) ==
    [i \in 1..Len(SelectSeq(validationErrors,
                            LAMBDA e : Len(e.constraints) > 0)) |->
        SelectSeq(validationErrors,
                  LAMBDA e : Len(e.constraints) > 0)[i].constraints[1]]

\* getAllMessages(): the constraints of every entry, entry after entry
RECURSIVE getAllMessages(_)
getAllMessages(validationErrors) ==
    IF validationErrors = <<>> THEN <<>>
    ELSE Head(validationErrors).constraints
            \o getAllMessages(Tail(validationErrors))

\* The accessor that returns the first matching entry only.
getErrorsForPropertyFirst(validationErrors, name) ==
    LET found == SelectSeq(validationErrors, LAMBDA e : e.property = name)
    IN  IF found = <<>> THEN <<>> ELSE <<Head(found)>>

\* getErrorsForProperty(name): the entries whose property is name
getErrorsForProperty(validationErrors, name) ==
    SelectSeq(validationErrors, LAMBDA e : e.property = name)

----------------------------------------------------------------------------
(* Bounds and input sets *)

MaxCalls == 2       \* call slots
MaxNetCalls == 3    \* fetch invocations in one behaviour
MaxBatch == 2       \* pairs in one updateBatch

MaxErrors == 3       \* entries of validationErrors
MaxConstraints == 2  \* constraints of one entry

CallIds == 1..MaxCalls

ConfigA == Config(Str("test-key"), Str("test-secret"), Str("test-public"),
                  Str("https://inventory.rauk.local"))
ConfigB == Config(Str("new-key"), Str("new-secret"), Str("new-public"),
                  Str("https://inventory.rauk.new"))
ConfigNoUrl == Config(Str("test-key"), Str("test-secret"), Str("test-public"),
                      Undefined)
\* configurations with a required field empty or missing
IncompleteConfigs ==
    {[ConfigA EXCEPT !.apiKeyId = Str("")],
     [ConfigA EXCEPT !.apiSecret = Str("")],
     [ConfigA EXCEPT !.apiPublicKey = Undefined],
     Config(Str(""), Str(""), Str(""), Undefined)}
CtorConfigs == {ConfigA, ConfigNoUrl} \cup IncompleteConfigs
SetConfigs == {ConfigB}

Q1 == Doc("q1")
Q2 == Doc("q2")
U1 == Doc("u1")
U2 == Doc("u2")
Item1 == Doc("item1")
Item2 == Doc("item2")
Stage1 == Doc("$match")
Stage2 == Doc("$group")
Pipeline12 == Arr(<<Stage1, Stage2>>)
Pipeline21 == Arr(<<Stage2, Stage1>>)
Bulk1 == Arr(<<UpdateOne(Q1, U1), Obj1("insertOne", Item1)>>)
Pairs == {Arr(<<Q1, U1>>), Arr(<<Q2, U2>>)}
Batches ==
    {Arr(s) : s \in UNION {[1..n -> Pairs] : n \in 0..MaxBatch}}

EmptyOptions == Opts(Undefined, Undefined)
OptionValues ==
    {Undefined, EmptyOptions, Opts(Num(5), Undefined),
     Opts(Undefined, Doc("select")), Opts(Num(1), Doc("select"))}

\* the argument lists <<a, b>> the encoder harness applies method op to
EncArgs(op) ==
    CASE op = "create" -> {<<Item1, Undefined>>, <<Item2, Undefined>>}
      [] op \in {"update", "updateMany"} ->
            {<<Q1, U1>>, <<Q2, U1>>, <<Q1, U2>>}
      [] op = "aggregate" ->
            {<<Pipeline12, Undefined>>, <<Pipeline21, Undefined>>,
             <<Obj1("pipeline", Pipeline12), Undefined>>}
      [] op = "bulkWrite" -> {<<Bulk1, Undefined>>}
      [] op = "updateBatch" -> {<<u, Undefined>> : u \in Batches}
      [] OTHER -> {<<Q1, Undefined>>, <<Q2, Undefined>>}

\* the argument list a stateful call applies method op to
CallArgs(op) ==
    CASE op = "create" -> <<Item1, Undefined>>
      [] op \in {"update", "updateMany"} -> <<Q1, U1>>
      [] op = "aggregate" -> <<Pipeline12, Undefined>>
      [] op = "bulkWrite" -> <<Bulk1, Undefined>>
      [] op = "updateBatch" -> <<Arr(<<Arr(<<Q1, U1>>), Arr(<<Q2, U2>>)>>), Undefined>>
      [] OTHER -> <<Q1, Undefined>>
CallOptions == {Undefined, Opts(Num(5), Undefined)}

Items1 == Arr(<<Doc("ITEM-001")>>)
ValidationErrors ==
    Arr(<<[t |-> "validationError", property |-> "brandDetails",
           constraints |-> <<"brandDetails should not be null or undefined">>],
          [t |-> "validationError", property |-> "factoryDetails",
           constraints |-> <<"factoryDetails should not be null or undefined">>]>>)
ValidationBody ==
    Json(ErrorBody(ErrorObject(Str("ValidationException"), Undefined,
                               ValidationErrors)))
MessageBody(name, message) ==
    Json(ErrorBody(ErrorObject(Str(name), Str(message), Undefined)))

\* what the transport may do with a fetch
Outcomes ==
    {Throw("fetch failed"),
     Response(200, Json(Items1)),
     Response(200, Json(Arr(<<>>))),
     Response(201, Unparseable),
     Response(400, ValidationBody),
     Response(400, MessageBody("BadRequest", "Malformed query")),
     Response(401, MessageBody("AuthenticationError", "Invalid API credentials")),
     Response(403, MessageBody("AuthenticationError", "Forbidden")),
     Response(404, MessageBody("NotFound", "Not found")),
     Response(500, MessageBody("ServerError", "Internal server error")),
     Response(502, Unparseable),
     Response(401, Unparseable)}


----------------------------------------------------------------------------
(* State *)

NoSync == [api |-> "none"]
\* the outcome of a constructor or setConfig call
SyncOutcome(api, config, r) ==
    [api |-> api, config |-> config, ok |-> r.ok, err |-> r.err]

NoOutcome == [t |-> "none"]
IdleCall == [st |-> "idle"]

\* a call whose fetch has been issued and has not settled
AwaitingCall(route, cls, op, options, requestArray, request) ==
    [st |-> "awaiting", route |-> route, cls |-> cls, op |-> op,
     options |-> options,
     requestArray |-> requestArray, request |-> request, fetches |-> 1,
     outcome |-> NoOutcome, result |-> Rejected(NoError)]

\* a call rejected before request was entered
RejectedCall(route, op, options, err) ==
    [st |-> "settled", route |-> route, cls |-> "RaukInventoryClient",
     op |-> op, options |-> options,
     requestArray |-> <<>>, request |-> NoRequest, fetches |-> 0,
     outcome |-> NoOutcome, result |-> Rejected(err)]

\* a call that signRequest rejected: request threw before its try block
SignFailedCall(route, cls, op, options, requestArray) ==
    [st |-> "settled", route |-> route, cls |-> cls, op |-> op,
     options |-> options, requestArray |-> requestArray,
     request |-> NoRequest, fetches |-> 0, outcome |-> NoOutcome,
     result |-> Rejected(RuntimeError("TypeError", SignErrorMessage))]

NoneSettled == \A j \in CallIds : calls[j].st # "settled"

\* calls are numbered in the order they are made
FreeSlot(i) ==
    /\ calls[i].st = "idle"
    /\ \A j \in CallIds : j < i => calls[j].st # "idle"

Init ==
    /\ client = NoClient
    /\ instance = NoClient
    /\ lastSync = NoSync
    /\ calls = [i \in CallIds |-> IdleCall]
    /\ netCalls = 0
    /\ enc = [st |-> "idle"]
    /\ verr = [st |-> "idle"]

----------------------------------------------------------------------------
(* Actions *)

\* new cls(config), for a class constructed directly: the three classes
\* have the same constructor
NewClient(cls, config) ==
    /\ NoneSettled
    /\ LET r == constructor(config)
       IN  /\ client' = IF r.ok THEN [r.obj EXCEPT !.cls = cls] ELSE client
           /\ lastSync' = SyncOutcome("new RaukInventoryClient", config, r)
    /\ UNCHANGED <<instance, calls, netCalls, enc, verr>>

\* new RaukInventory(config)
NewSingleton(config) ==
    /\ NoneSettled
    /\ LET r == RaukInventory(config, instance)
       IN  /\ instance' = IF r.ok THEN r.obj ELSE instance
           /\ lastSync' = SyncOutcome("new RaukInventory", config, r)
    /\ UNCHANGED <<client, calls, netCalls, enc, verr>>

\* (RaukInventory as any).instance = null
ResetSingleton ==
    /\ NoneSettled
    /\ instance # NoClient
    /\ instance' = NoClient
    /\ lastSync' = NoSync
    /\ UNCHANGED <<client, calls, netCalls, enc, verr>>

\* RaukInventory.setConfig(config)
StaticSetConfig(config) ==
    /\ NoneSettled
    /\ LET r == getInstance(instance)
       IN  /\ instance' = IF r.ok THEN setConfig(r.obj, config) ELSE instance
           /\ lastSync' = SyncOutcome("RaukInventory.setConfig", config, r)
    /\ UNCHANGED <<client, calls, netCalls, enc, verr>>

\* A setConfig that also points the requests in flight at the new base URL.
InstanceSetConfigRetargeting(config) ==
    /\ NoneSettled
    /\ instance # NoClient
    /\ instance' = setConfig(instance, config)
    /\ lastSync' = SyncOutcome("instance.setConfig", config,
                               [ok |-> TRUE, err |-> NoError])
    /\ calls' = [i \in CallIds |->
                   IF calls[i].st = "awaiting"
                   THEN [calls[i] EXCEPT !.request.url.base = config.apiBaseUrl]
                   ELSE calls[i]]
    /\ UNCHANGED <<client, netCalls, enc, verr>>

\* instance.setConfig(config) on the singleton object
InstanceSetConfig(config) ==
    /\ NoneSettled
    /\ instance # NoClient
    /\ instance' = setConfig(instance, config)
    /\ lastSync' = SyncOutcome("instance.setConfig", config,
                               [ok |-> TRUE, err |-> NoError])
    /\ UNCHANGED <<client, calls, netCalls, enc, verr>>

\* A request that goes on to fetch when signRequest has thrown.
IssueUnsigned(i, route, op, options, obj) ==
    LET args == CallArgs(op)
        requestArray == RequestArray(obj.cls, op, args[1], args[2], options)
    IN  /\ calls' = [calls EXCEPT ![i] =
              AwaitingCall(route, obj.cls, op, options, requestArray,
                           FetchArgs(obj, requestArray))]
        /\ netCalls' = netCalls + 1

\* The method op runs on obj up to the await of fetch: the array is built
\* and signed, and fetch is called.  signRequest is called before the try
\* block: when it throws, the call rejects with its error and fetch is not
\* called.
Issue(i, route, op, options, obj) ==
    LET args == CallArgs(op)
        requestArray == RequestArray(obj.cls, op, args[1], args[2], options)
    IN  IF SignFails(requestArray)
        THEN /\ calls' = [calls EXCEPT ![i] =
                   SignFailedCall(route, obj.cls, op, options, requestArray)]
             /\ UNCHANGED netCalls
        ELSE /\ calls' = [calls EXCEPT ![i] =
                   AwaitingCall(route, obj.cls, op, options, requestArray,
                                FetchArgs(obj, requestArray))]
             /\ netCalls' = netCalls + 1

\* client.op(...) on a directly constructed client
DirectCall(i, op, options) ==
    /\ FreeSlot(i) /\ NoneSettled
    /\ netCalls < MaxNetCalls
    /\ client # NoClient
    /\ op \in Methods(client.cls)
    /\ Issue(i, "direct", op, options, client)
    /\ lastSync' = NoSync
    /\ UNCHANGED <<client, instance, enc, verr>>

\* instance.op(...) on the singleton object
InstanceCall(i, op, options) ==
    /\ FreeSlot(i) /\ NoneSettled
    /\ netCalls < MaxNetCalls
    /\ instance # NoClient
    /\ op \in Methods(instance.cls)
    /\ Issue(i, "instance", op, options, instance)
    /\ lastSync' = NoSync
    /\ UNCHANGED <<client, instance, enc, verr>>

\* RaukInventory.op(...) while an instance is registered
StaticCall(i, op, options) ==
    /\ FreeSlot(i) /\ NoneSettled
    /\ netCalls < MaxNetCalls
    /\ getInstance(instance).ok
    /\ op \in Methods("RaukInventoryClient")
    /\ Issue(i, "static", op, options, getInstance(instance).obj)
    /\ lastSync' = NoSync
    /\ UNCHANGED <<client, instance, enc, verr>>

\* RaukInventory.op(...) while no instance is registered
StaticCallRejected(i, op, options) ==
    /\ FreeSlot(i) /\ NoneSettled
    /\ ~getInstance(instance).ok
    /\ op \in Methods("RaukInventoryClient")
    /\ calls' = [calls EXCEPT ![i] =
          RejectedCall("static", op, options, getInstance(instance).err)]
    /\ lastSync' = NoSync
    /\ UNCHANGED <<client, instance, netCalls, enc, verr>>

\* A request that keeps its response in a field shared by all the calls
\* in flight: every awaiting call settles with the outcome of this one.
RespondShared(i, outcome) ==
    /\ calls[i].st = "awaiting"
    /\ NoneSettled
    /\ calls' = [j \in CallIds |->
          IF calls[j].st = "awaiting"
          THEN [calls[j] EXCEPT !.st = "settled", !.outcome = outcome,
                                !.result = MethodResult(calls[j].op,
                                               requestResult(calls[j].cls,
                                                             outcome))]
          ELSE calls[j]]
    /\ lastSync' = NoSync
    /\ UNCHANGED <<client, instance, netCalls, enc, verr>>

\* A request that calls fetch again when the first attempt fails.
RespondRetrying(i, outcome) ==
    /\ calls[i].st = "awaiting"
    /\ NoneSettled
    /\ IF ~requestResult(calls[i].cls, outcome).ok /\ netCalls < MaxNetCalls
       THEN /\ calls' = [calls EXCEPT ![i].fetches = @ + 1]
            /\ netCalls' = netCalls + 1
       ELSE /\ calls' = [calls EXCEPT ![i] =
                  [@ EXCEPT !.st = "settled", !.outcome = outcome,
                            !.result = MethodResult(calls[i].op,
                                           requestResult(calls[i].cls,
                                                         outcome))]]
            /\ UNCHANGED netCalls
    /\ lastSync' = NoSync
    /\ UNCHANGED <<client, instance, enc, verr>>

\* fetch settles for call i, and request and the method run to their end
Respond(i, outcome) ==
    /\ calls[i].st = "awaiting"
    /\ NoneSettled
    /\ calls' = [calls EXCEPT ![i] =
          [@ EXCEPT !.st = "settled", !.outcome = outcome,
                    !.result = MethodResult(calls[i].op,
                                            requestResult(calls[i].cls,
                                                          outcome))]]
    /\ lastSync' = NoSync
    /\ UNCHANGED <<client, instance, netCalls, enc, verr>>

\* the caller takes the result of call i
Return(i) ==
    /\ calls[i].st = "settled"
    /\ calls' = [calls EXCEPT ![i] = IdleCall]
    /\ lastSync' = NoSync
    /\ UNCHANGED <<client, instance, netCalls, enc, verr>>

AllMethods == UNION {Methods(c) : c \in Classes}

AllIdle == \A j \in CallIds : calls[j].st = "idle"

\* Under Next the caller awaits each call before it makes the next one.
Next ==
    \/ \E cls \in Classes, config \in CtorConfigs : NewClient(cls, config)
    \/ \E config \in CtorConfigs : NewSingleton(config)
    \/ ResetSingleton
    \/ \E config \in SetConfigs : StaticSetConfig(config)
    \/ \E config \in SetConfigs : InstanceSetConfig(config)
    \/ \E i \in CallIds, op \in AllMethods, options \in CallOptions :
          AllIdle /\ DirectCall(i, op, options)
    \/ \E i \in CallIds, op \in AllMethods, options \in CallOptions :
          AllIdle /\ InstanceCall(i, op, options)
    \/ \E i \in CallIds, op \in AllMethods, options \in CallOptions :
          AllIdle /\ StaticCall(i, op, options)
    \/ \E i \in CallIds, op \in AllMethods, options \in CallOptions :
          AllIdle /\ StaticCallRejected(i, op, options)
    \/ \E i \in CallIds, outcome \in Outcomes : Respond(i, outcome)
    \/ \E i \in CallIds : Return(i)

Spec == Init /\ [][Next]_vars


----------------------------------------------------------------------------
(* Concurrent calls: the caller makes a call while earlier calls await     *)
(* their responses, on a small set of methods, options and outcomes        *)

ConcOps == {"find", "findOne", "update", "updateBatch"}
ConcOptions == {Undefined, Opts(Undefined, Cyclic)}
ConcOutcomes ==
    {Throw("fetch failed"),
     Response(200, Json(Items1)),
     Response(200, Json(Arr(<<>>))),
     Response(500, MessageBody("ServerError", "Internal server error"))}

ConcNext ==
    \/ \E config \in {ConfigA} : NewClient("RaukInventoryClient", config)
    \/ \E config \in {ConfigA} : NewSingleton(config)
    \/ \E config \in SetConfigs : StaticSetConfig(config)
    \/ \E config \in SetConfigs : InstanceSetConfig(config)
    \/ \E i \in CallIds, op \in ConcOps, options \in ConcOptions :
          DirectCall(i, op, options)
    \/ \E i \in CallIds, op \in ConcOps, options \in ConcOptions :
          InstanceCall(i, op, options)
    \/ \E i \in CallIds, op \in ConcOps, options \in ConcOptions :
          StaticCall(i, op, options)
    \/ \E i \in CallIds, op \in ConcOps, options \in ConcOptions :
          StaticCallRejected(i, op, options)
    \/ \E i \in CallIds, outcome \in ConcOutcomes : Respond(i, outcome)
    \/ \E i \in CallIds : Return(i)

SpecConc == Init /\ [][ConcNext]_vars


----------------------------------------------------------------------------
(* The encoder on its own: one method of one class applied to one          *)
(* argument list                                                           *)

EncInputs ==
    {[st |-> "input", cls |-> cls, op |-> op, a |-> args[1], b |-> args[2],
      options |-> options, requestArray |-> <<>>] :
        cls \in Classes, op \in AllMethods, args \in UNION {EncArgs(o) : o \in AllMethods},
        options \in OptionValues}

EncInit ==
    /\ client = NoClient
    /\ instance = NoClient
    /\ lastSync = NoSync
    /\ calls = [i \in CallIds |-> IdleCall]
    /\ netCalls = 0
    /\ enc \in {e \in EncInputs :
                  e.op \in Methods(e.cls) /\ <<e.a, e.b>> \in EncArgs(e.op)}
    /\ verr = [st |-> "idle"]

\* the method builds its requestArray
Encode ==
    /\ enc.st = "input"
    /\ enc' = [enc EXCEPT !.st = "done",
                          !.requestArray =
                              RequestArray(enc.cls, enc.op, enc.a, enc.b,
                                           enc.options)]
    /\ UNCHANGED <<client, instance, lastSync, calls, netCalls, verr>>

EncNext == Encode

SpecEnc == EncInit /\ [][EncNext]_vars


----------------------------------------------------------------------------
(* The accessors of ValidationError on their own: one error, one accessor  *)
(* call                                                                    *)

Properties == {"brandDetails", "factoryDetails"}
PropertyNames == Properties \cup {"color"}
Messages == {"should not be null or undefined", "must be an object"}
ConstraintLists == UNION {[1..n -> Messages] : n \in 0..MaxConstraints}
Entries ==
    {ValidationEntry(p, c) : p \in Properties, c \in ConstraintLists}
ErrorLists == UNION {[1..n -> Entries] : n \in 0..MaxErrors}

ErrInit ==
    /\ client = NoClient
    /\ instance = NoClient
    /\ lastSync = NoSync
    /\ calls = [i \in CallIds |-> IdleCall]
    /\ netCalls = 0
    /\ enc = [st |-> "idle"]
    /\ verr \in {[st |-> "error", validationErrors |-> v] : v \in ErrorLists}

\* error.getAllMessages()
GetAllMessages ==
    /\ verr.st = "error"
    /\ verr' = [st |-> "returned", validationErrors |-> verr.validationErrors,
                call |-> "getAllMessages", name |-> "",
                result |-> getAllMessages(verr.validationErrors)]
    /\ UNCHANGED <<client, instance, lastSync, calls, netCalls, enc>>

\* error.getErrorsForProperty(name)
GetErrorsForProperty(name) ==
    /\ verr.st = "error"
    /\ verr' = [st |-> "returned", validationErrors |-> verr.validationErrors,
                call |-> "getErrorsForProperty", name |-> name,
                result |-> getErrorsForProperty(verr.validationErrors, name)]
    /\ UNCHANGED <<client, instance, lastSync, calls, netCalls, enc>>

ErrNext ==
    \/ GetAllMessages
    \/ \E name \in PropertyNames : GetErrorsForProperty(name)

SpecErr == ErrInit /\ [][ErrNext]_vars


----------------------------------------------------------------------------
(* Claims *)

CtorApis == {"new RaukInventoryClient", "new RaukInventory"}

\* a required field of config is empty or missing
Incomplete(config) ==
    \/ config.apiKeyId \in {Str(""), Undefined}
    \/ config.apiSecret \in {Str(""), Undefined}
    \/ config.apiPublicKey \in {Str(""), Undefined}

\* a step that is a constructor call with an incomplete configuration
IncompleteCtorStep ==
    /\ lastSync' # lastSync
    /\ lastSync'.api \in CtorApis
    /\ Incomplete(lastSync'.config)

SettledOn(i) == calls[i].st = "settled" /\ calls[i].outcome.t = "response"

\* the response body is a validation error body: JSON with
\* error.name == "ValidationException" and an error.errors array
IsValidationResponse(outcome) ==
    /\ outcome.t = "response"
    /\ outcome.status = 400
    /\ outcome.body.parses
    /\ outcome.body.json.t = "errorBody"
    /\ outcome.body.json.error.name = Str("ValidationException")
    /\ outcome.body.json.error.errors.t = "array"

\* the parsed error.message of a response, "" when there is none
BodyMessage(outcome) ==
    IF outcome.body.parses /\ outcome.body.json.t = "errorBody"
    THEN MessageOf(outcome.body.json.error.message)
    ELSE ""

\* C2: a call answered by status 400 with a ValidationException body
\* rejects with a ValidationError whose validationErrors are the body's
\* error.errors, whose statusCode is 400 and whose originalError is defined.
C2_ValidationError ==
    \A i \in CallIds :
        (SettledOn(i) /\ IsValidationResponse(calls[i].outcome)) =>
            /\ ~calls[i].result.ok
            /\ calls[i].result.err.kind = "ValidationError"
            /\ calls[i].result.err.validationErrors
                   = calls[i].outcome.body.json.error.errors
            /\ calls[i].result.err.statusCode = Num(400)
            /\ calls[i].result.err.originalError # Undefined

\* C3: a call answered by status 401 or 403 rejects with an
\* AuthenticationError whose message is the body's error.message and whose
\* statusCode is the status.
C3_AuthenticationError ==
    \A i \in CallIds :
        (SettledOn(i) /\ calls[i].outcome.status \in {401, 403}
                      /\ calls[i].outcome.body.parses) =>
            /\ ~calls[i].result.ok
            /\ calls[i].result.err.kind = "AuthenticationError"
            /\ calls[i].result.err.message = BodyMessage(calls[i].outcome)
            /\ calls[i].result.err.statusCode = Num(calls[i].outcome.status)

\* C4: a call answered by any other non-2xx status (500 and above, 404, or
\* 400 without a ValidationException body) rejects with a NetworkError whose
\* message is the body's error.message and whose statusCode is the status.
C4_NetworkErrorStatus ==
    \A i \in CallIds :
        (/\ SettledOn(i)
         /\ ~ResponseOk(calls[i].outcome)
         /\ calls[i].outcome.status \notin {401, 403}
         /\ ~IsValidationResponse(calls[i].outcome)
         /\ calls[i].outcome.body.parses) =>
            /\ ~calls[i].result.ok
            /\ calls[i].result.err.kind = "NetworkError"
            /\ calls[i].result.err.message = BodyMessage(calls[i].outcome)
            /\ calls[i].result.err.statusCode = Num(calls[i].outcome.status)

NetworkFailedMessage == "Network request failed"

\* C5: when the transport throws before any response, the call rejects with
\* a NetworkError whose message is the fixed network-request-failed message
\* and whose context.originalError is the thrown error's message.
C5_NetworkErrorThrow ==
    \A i \in CallIds :
        (calls[i].st = "settled" /\ calls[i].outcome.t = "throw") =>
            /\ ~calls[i].result.ok
            /\ calls[i].result.err.kind = "NetworkError"
            /\ calls[i].result.err.message = NetworkFailedMessage
            /\ calls[i].result.err.context
                   = Obj1("originalError", Str(calls[i].outcome.message))

TypedKinds ==
    {"ConfigurationError", "ValidationError", "AuthenticationError",
     "NetworkError"}

\* the transport's outcome is a failure: a throw, a non-2xx response, or a
\* 2xx response whose body does not decode
FailureOutcome(outcome) ==
    \/ outcome.t = "throw"
    \/ outcome.t = "response" /\ ~ResponseOk(outcome)
    \/ outcome.t = "response" /\ ~outcome.body.parses

\* C6: every failing call rejects with one of the four typed kinds, on
\* every failure path, and no failure becomes a successful result.
C6_TypedFailures ==
    \A i \in CallIds :
        calls[i].st = "settled" =>
            /\ ~calls[i].result.ok => calls[i].result.err.kind \in TypedKinds
            /\ FailureOutcome(calls[i].outcome) => ~calls[i].result.ok

C9Ops ==
    {"create", "find", "findFlexible", "update", "updateMany", "delete",
     "deleteOne", "deleteMany", "aggregate", "bulkWrite"}

\* the number of elements of the command tuple that precede the options
Arity(op) == IF op \in {"update", "updateMany", "delete"} THEN 3 ELSE 2

\* C9: for each of the ten operations, the tuple built without options has
\* no options slot, and the tuple built with options (an empty options
\* object included) is one longer and ends with the options.
C9_OptionsSlot ==
    (enc.st = "done" /\ enc.op \in C9Ops) =>
        IF enc.options = Undefined
        THEN Len(enc.requestArray) = Arity(enc.op)
        ELSE /\ Len(enc.requestArray) = Arity(enc.op) + 1
             /\ enc.requestArray[Len(enc.requestArray)] = enc.options

C9_Witness ==
    /\ enc.st = "done"
    /\ enc.op = "deleteMany"
    /\ enc.options = EmptyOptions
    /\ Len(enc.requestArray) = 3
    /\ enc.requestArray[3] = EmptyOptions

\* the tuple of the table for method op applied to (a, b), without options
TableTuple(op, a, b) ==
    CASE op = "create" -> <<Str("insertOne"), a>>
      [] op \in {"find", "findFlexible"} -> <<Str("find"), a>>
      [] op = "update" -> <<Str("findOneAndUpdate"), a, b>>
      [] op = "updateMany" -> <<Str("updateMany"), a, b>>
      [] op = "aggregate" -> <<Str("aggregate"), a>>
      [] op = "bulkWrite" -> <<Str("bulkWrite"), a>>
      [] op = "delete" ->
            <<Str("findOneAndUpdate"), a, Obj1("deleted", Obj1("status", Bool(TRUE)))>>
      [] op = "deleteOne" -> <<Str("deleteOne"), a>>
      [] op = "deleteMany" -> <<Str("deleteMany"), a>>

\* C10: each operation is encoded as the tuple of the table, its arguments
\* passed verbatim, followed by the options when they are supplied.
C10_TableTuples ==
    (enc.st = "done" /\ enc.op \in C9Ops) =>
        enc.requestArray =
            IF enc.options = Undefined
            THEN TableTuple(enc.op, enc.a, enc.b)
            ELSE Append(TableTuple(enc.op, enc.a, enc.b), enc.options)

FindOneOps == {"findOne", "findOneFlexible"}

\* C11: findOne and findOneFlexible build one find command whose options
\* have limit exactly 1, for every options value of the caller (absent,
\* without limit, with another limit); the other options are the caller's.
C11_FindOneLimit ==
    (enc.st = "done" /\ enc.op \in FindOneOps) =>
        /\ Len(enc.requestArray) = 3
        /\ enc.requestArray[1] = Str("find")
        /\ enc.requestArray[2] = enc.a
        /\ enc.requestArray[3].t = "options"
        /\ enc.requestArray[3].limit = Num(1)
        /\ enc.requestArray[3].select =
              (IF enc.options = Undefined THEN Undefined ELSE enc.options.select)

C11_Witness ==
    /\ enc.st = "done"
    /\ enc.op = "findOneFlexible"
    /\ enc.options = Opts(Num(5), Undefined)
    /\ enc.requestArray[3].limit = Num(1)

\* call i is a settled findOne or findOneFlexible whose find got a 2xx
\* response with a result sequence as its body
FoundSequence(i) ==
    /\ calls[i].st = "settled"
    /\ calls[i].op \in FindOneOps
    /\ calls[i].outcome.t = "response"
    /\ ResponseOk(calls[i].outcome)
    /\ calls[i].outcome.body.parses
    /\ calls[i].outcome.body.json.t = "array"

\* C12: findOne and findOneFlexible resolve to the first element of a
\* non-empty find result and to null for an empty one; an empty result is
\* never an exception.
C12_FindOneResult ==
    \A i \in CallIds :
        FoundSequence(i) =>
            LET items == calls[i].outcome.body.json.items
            IN  /\ calls[i].result.ok
                /\ calls[i].result.value =
                      (IF Len(items) > 0 THEN items[1] ELSE Null)

C12_Witness ==
    \E i \in CallIds :
        /\ FoundSequence(i)
        /\ calls[i].op = "findOneFlexible"
        /\ Len(calls[i].outcome.body.json.items) = 0
        /\ calls[i].result = Resolved(Null)

\* C13: updateBatch with n [query, update] pairs builds one bulkWrite
\* command whose operations array has exactly n entries, all updateOne, in
\* input order, the i-th with filter q_i and update u_i itself.
C13_UpdateBatch ==
    (enc.st = "done" /\ enc.op = "updateBatch") =>
        LET pairs == enc.a.items
            operations == enc.requestArray[2]
        IN  /\ enc.requestArray[1] = Str("bulkWrite")
            /\ operations.t = "array"
            /\ Len(operations.items) = Len(pairs)
            /\ \A i \in 1..Len(pairs) :
                  /\ operations.items[i].t = "object"
                  /\ operations.items[i].key = "updateOne"
                  /\ operations.items[i].val.filter = pairs[i].items[1]
                  /\ operations.items[i].val.update = pairs[i].items[2]

\* the step issues call i: the method runs up to the await of fetch
Issued(i) == calls[i].st = "idle" /\ calls'[i].st = "awaiting"

\* the object the call issued in this step as call i runs on
Callee(i) == IF calls'[i].route = "direct" THEN client ELSE instance

\* header names that HTTP defines itself
StandardHeaders == {"Authorization", "Content-Type"}

\* C14: every operation issues a POST to {baseUrl}/query that carries the
\* computed signature in a custom signature header and Content-Type
\* application/json, with the JSON serialization of the command tuple as its
\* body; the operations of bulkWrite and the stages of aggregate are in the
\* body in the order supplied.
C14_WireFormat ==
    [][\A i \in CallIds :
          Issued(i) =>
              LET r == calls'[i].request
                  obj == Callee(i)
                  a == CallArgs(calls'[i].op)[1]
              IN  /\ r.method = "POST"
                  /\ r.url = [base |-> obj.apiBaseUrl, path |-> "/query"]
                  /\ r.signatureHeader \notin StandardHeaders
                  /\ r.signaturePrefix = ""
                  /\ r.signature =
                        signRequest([apiKeyId |-> obj.apiKeyId,
                                     apiSecret |-> obj.apiSecret,
                                     apiPublicKey |-> obj.apiPublicKey],
                                    calls'[i].requestArray)
                  /\ r.contentType = "application/json"
                  /\ r.body = StringifyArray(calls'[i].requestArray)
                  /\ calls'[i].op \in {"bulkWrite", "aggregate"} =>
                        /\ r.body[2].t = "array"
                        /\ Len(r.body[2].items) = Len(a.items)
                        /\ \A k \in 1..Len(a.items) :
                              r.body[2].items[k] = Stringify(a.items[k])]_vars

\* the classes whose request sends a body
BodyClasses == {"RaukInventoryClient", "RaukInventoryRev1"}

C16_OneAttempt ==
    [][/\ netCalls' = netCalls + Cardinality({i \in CallIds : Issued(i)})
       /\ \A i \in CallIds :
             /\ Issued(i) => calls'[i].fetches = 1
             /\ (calls'[i].st = "settled" /\ calls'[i].request # NoRequest) =>
                   calls'[i].fetches = 1]_vars

C16_Witness ==
    \E i \in CallIds :
        /\ calls[i].st = "settled"
        /\ calls[i].op = "updateBatch"
        /\ calls[i].outcome = Throw("fetch failed")
        /\ ~calls[i].result.ok
        /\ calls[i].fetches = 1
        /\ netCalls = 1

\* call i is settled, its fetch got a 2xx response and the body decodes
DecodedSuccess(i) ==
    /\ calls[i].st = "settled"
    /\ calls[i].outcome.t = "response"
    /\ ResponseOk(calls[i].outcome)
    /\ calls[i].outcome.body.parses

\* C17: when the transport succeeds with a 2xx status, the call resolves
\* with the decoded response body, unchanged (findOne and findOneFlexible,
\* which select from the body, are the matter of C12).
C17_SuccessBody ==
    \A i \in CallIds :
        (DecodedSuccess(i) /\ calls[i].op \notin FindOneOps) =>
            calls[i].result = Resolved(calls[i].outcome.body.json)

C17_Witness ==
    \E i \in CallIds :
        /\ DecodedSuccess(i)
        /\ calls[i].op = "aggregate"
        /\ calls[i].outcome = Response(200, Json(Items1))
        /\ calls[i].result = Resolved(Items1)

\* the number of constraints in the first n entries of v
RECURSIVE ConstraintsBefore(_, _)
ConstraintsBefore(v, n) ==
    IF n = 0 THEN 0
    ELSE ConstraintsBefore(v, n - 1) + Len(v[n].constraints)

\* C18: getAllMessages() returns every constraints entry of every element
\* of validationErrors as one sequence, ordered by the element's position
\* and then by the constraint's position in the element, nothing dropped
\* and nothing duplicated.
C18_GetAllMessages ==
    (verr.st = "returned" /\ verr.call = "getAllMessages") =>
        LET v == verr.validationErrors
        IN  /\ Len(verr.result) = ConstraintsBefore(v, Len(v))
            /\ \A i \in 1..Len(v) :
                  \A j \in 1..Len(v[i].constraints) :
                      verr.result[ConstraintsBefore(v, i - 1) + j] =
                          v[i].constraints[j]

C18_Witness ==
    /\ verr.st = "returned"
    /\ verr.call = "getAllMessages"
    /\ Len(verr.validationErrors) = 3
    /\ Len(verr.validationErrors[1].constraints) = 2
    /\ Len(verr.validationErrors[2].constraints) = 0
    /\ verr.validationErrors[1].constraints[1] #
          verr.validationErrors[1].constraints[2]
    /\ verr.result = verr.validationErrors[1].constraints
                        \o verr.validationErrors[3].constraints
    /\ Len(verr.result) = 4

\* the positions of the entries of v whose property is name
Matching(v, name) == {i \in 1..Len(v) : v[i].property = name}

\* the position in v of the k-th entry whose property is name
KthMatch(v, name, k) ==
    CHOOSE i \in Matching(v, name) :
        Cardinality({j \in Matching(v, name) : j <= i}) = k

\* C19: getErrorsForProperty(name) returns exactly the entries of
\* validationErrors whose property equals name, in their original order,
\* and an empty sequence when none match.
C19_GetErrorsForProperty ==
    (verr.st = "returned" /\ verr.call = "getErrorsForProperty") =>
        LET v == verr.validationErrors
            n == Cardinality(Matching(v, verr.name))
        IN  /\ DOMAIN verr.result = 1..n
            /\ \A k \in 1..n : verr.result[k] = v[KthMatch(v, verr.name, k)]
            /\ n = 0 => verr.result = <<>>

C19_Witness ==
    /\ verr.st = "returned"
    /\ verr.call = "getErrorsForProperty"
    /\ verr.name = "factoryDetails"
    /\ Len(verr.validationErrors) = 3
    /\ verr.validationErrors[2].property = "brandDetails"
    /\ verr.validationErrors[1] # verr.validationErrors[3]
    /\ verr.result = <<verr.validationErrors[1], verr.validationErrors[3]>>

SetConfigApis == {"RaukInventory.setConfig", "instance.setConfig"}

\* the step is a setConfig call that succeeds
SetConfigStep ==
    /\ lastSync' # lastSync
    /\ lastSync'.api \in SetConfigApis
    /\ lastSync'.ok

\* the four configuration fields the request r was built from
RequestConfig(r) ==
    Config(r.signature.apiKeyId, r.signature.apiSecret,
           r.signature.apiPublicKey, r.url.base)

\* the four configuration fields of the object obj
ObjectConfig(obj) ==
    Config(obj.apiKeyId, obj.apiSecret, obj.apiPublicKey, obj.apiBaseUrl)

Credentials(obj) ==
    [apiKeyId |-> obj.apiKeyId, apiSecret |-> obj.apiSecret,
     apiPublicKey |-> obj.apiPublicKey]

\* values an attacker may put in the place of one element of a tuple
TamperValues ==
    {Q1, Q2, U1, U2, Str("find"), Str("deleteMany"), Undefined,
     EmptyOptions, Opts(Num(1), Undefined)}

\* the tuples that differ from t in exactly one element, or by one element
\* dropped from or added to its end
Tampered(t) ==
    ({[t EXCEPT ![k] = x] : k \in 1..Len(t), x \in TamperValues}
        \cup {SubSeq(t, 1, Len(t) - 1)}
        \cup {Append(t, x) : x \in TamperValues})
    \ {t}

\* the credentials that differ from c in exactly one field
OtherCredentials(c) ==
    ({[c EXCEPT !.apiKeyId = x] : x \in {Str("test-key"), Str("new-key")}}
        \cup {[c EXCEPT !.apiSecret = x] :
                  x \in {Str("test-secret"), Str("new-secret")}}
        \cup {[c EXCEPT !.apiPublicKey = x] :
                  x \in {Str("test-public"), Str("new-public")}})
    \ {c}

RECURSIVE Mentions(_, _)
Mentions(v, x) ==
    \/ v = x
    \/ CASE v.t = "array" -> \E i \in 1..Len(v.items) : Mentions(v.items[i], x)
         [] v.t = "object" -> Mentions(v.val, x)
         [] v.t = "filterUpdate" -> Mentions(v.filter, x) \/ Mentions(v.update, x)
         [] v.t = "options" -> Mentions(v.limit, x) \/ Mentions(v.select, x)
         [] OTHER -> FALSE

\* C24: for every operation, apiKeyId, apiSecret and apiPublicKey appear
\* neither in the command tuple, nor in the request body, nor in the
\* request URL; the signature derived from them travels in a header.
C24_CredentialsOffWire ==
    [][\A i \in CallIds :
          Issued(i) =>
              LET r == calls'[i].request
                  obj == Callee(i)
                  secrets == {obj.apiKeyId, obj.apiSecret, obj.apiPublicKey}
              IN  \A x \in secrets :
                      /\ \A k \in 1..Len(calls'[i].requestArray) :
                            ~Mentions(calls'[i].requestArray[k], x)
                      /\ \A k \in 1..Len(r.body) : ~Mentions(r.body[k], x)
                      /\ r.url = [base |-> obj.apiBaseUrl, path |-> "/query"]
                      /\ obj.apiBaseUrl # x
                      /\ r.signature.t = "signature"
                      /\ r.signatureHeader \in {"Rai-Signature", "Authorization"}]_vars

C24_Witness ==
    \E i \in CallIds :
        /\ calls[i].st = "awaiting"
        /\ calls[i].op = "bulkWrite"
        /\ calls[i].options = Opts(Num(5), Undefined)
        /\ Len(calls[i].request.body) = 3
        /\ ~Mentions(calls[i].request.body[2], Str("test-secret"))
        /\ calls[i].request.signature.apiSecret = Str("test-secret")
        /\ calls[i].request.url.base \in
              {Str("https://inventory.rauk.local"), Str(DefaultBaseUrl)}

\* the step changes call i
Touched(i) == calls'[i] # calls[i]

\* C25: calls made concurrently on the same client are independent: each
\* issues its own request, a call can be made and a response can arrive
\* while another call awaits, in any order, and each call settles with the
\* outcome of its own request, no step changing two calls.
C25_IndependentCalls ==
    [][/\ \A i, j \in CallIds : (Touched(i) /\ Touched(j)) => i = j
       /\ \A i \in CallIds :
             /\ Issued(i) => netCalls' = netCalls + 1
             /\ (calls[i].st = "awaiting" /\ calls'[i].st = "settled") =>
                   calls'[i].result =
                       MethodResult(calls[i].op,
                                    requestResult(calls[i].cls,
                                                  calls'[i].outcome))
             /\ (calls[i].st = "awaiting" /\ NoneSettled) =>
                   \A outcome \in ConcOutcomes : ENABLED Respond(i, outcome)
      ]_vars

\* the second call has settled successfully while the first, made earlier
\* on the same client, still awaits its response
C25_Witness ==
    /\ calls[1].st = "awaiting"
    /\ calls[2].st = "settled"
    /\ calls[1].route = "direct"
    /\ calls[2].route = "direct"
    /\ calls[2].outcome = Response(200, Json(Items1))
    /\ calls[2].result = Resolved(Items1)
    /\ netCalls = 2

SingletonRoutes == {"instance", "static"}

\* the step makes call i: the call awaits fetch, or signRequest rejected it
Made(i) == calls[i].st = "idle" /\ calls'[i].st # "idle"

\* the call record of method op with options on the object obj, its route
\* left aside
MethodCall(obj, op, options) ==
    LET args == CallArgs(op)
        requestArray == RequestArray(obj.cls, op, args[1], args[2], options)
    IN  IF SignFails(requestArray)
        THEN [SignFailedCall("", obj.cls, op, options, requestArray)
                 EXCEPT !.route = "any"]
        ELSE [AwaitingCall("", obj.cls, op, options, requestArray,
                           FetchArgs(obj, requestArray))
                 EXCEPT !.route = "any"]

C27_UnparseableBody ==
    \A i \in CallIds :
        (/\ SettledOn(i)
         /\ ~ResponseOk(calls[i].outcome)
         /\ ~calls[i].outcome.body.parses) =>
            /\ ~calls[i].result.ok
            /\ calls[i].result.err.kind =
                  (IF calls[i].outcome.status \in {401, 403}
                   THEN "AuthenticationError" ELSE "NetworkError")
            /\ calls[i].result.err.statusCode = Num(calls[i].outcome.status)
            /\ calls[i].result.err #
                  MethodResult(calls[i].op,
                               requestResult(calls[i].cls,
                                             Throw("fetch failed"))).err

\* C28: signing precedes sending: a request that is sent carries the
\* signature computed for its tuple, and when signing the tuple fails
\* (the tuple cannot be serialized) the call fails and fetch is not called.
C28_SignBeforeSend ==
    [][\A i \in CallIds :
          (Made(i) /\ calls'[i].result.err.kind # "ConfigurationError") =>
              IF ~Serializable(calls'[i].options)
              THEN /\ calls'[i].st = "settled"
                   /\ ~calls'[i].result.ok
                   /\ calls'[i].request = NoRequest
                   /\ calls'[i].fetches = 0
                   /\ netCalls' = netCalls
              ELSE /\ calls'[i].st = "awaiting"
                   /\ calls'[i].request.signature =
                         signRequest(Credentials(Callee(i)),
                                     calls'[i].requestArray)
                   /\ netCalls' = netCalls + 1]_vars

C28_Witness ==
    \E i \in CallIds :
        /\ calls[i].st = "settled"
        /\ calls[i].op = "findOne"
        /\ calls[i].options = Opts(Undefined, Cyclic)
        /\ calls[i].request = NoRequest
        /\ calls[i].result = Rejected(RuntimeError("TypeError", SignErrorMessage))
        /\ netCalls = 0

\* the configurations a client is given, with the default base URL filled in
GivenConfigs ==
    {ConfigA, ConfigB, [ConfigNoUrl EXCEPT !.apiBaseUrl = Str(DefaultBaseUrl)]}

SingletonCtorStep ==
    /\ lastSync' # lastSync
    /\ lastSync'.api = "new RaukInventory"

====
